---- MODULE Spec2Model ----
(***************************************************************************)
(* Model of felix's iptables feature detection (iptables/feature_detect.go) *)
(*                                                                         *)
(*  - FeatureDetector: GetFeatures / RefreshFeatures called by concurrent  *)
(*    goroutines, serialised by d.lock; the probing cycle                  *)
(*    (getIptablesVersion, getKernelVersion, flag computation, overrides,  *)
(*    publication into d.featureCache).                                    *)
(*  - DetectBackend / findBestBinary / countRulesInIptableOutput.          *)
(*                                                                         *)
(* Text (command output, version banners, the specified backend) is a      *)
(* sequence of one-character strings, so that the regexp match, the line   *)
(* split and strings.ToLower are computed, not assumed.  Binary names are  *)
(* TLA+ strings built by concatenation as the code builds them.            *)
(***************************************************************************)
EXTENDS Integers, Sequences, FiniteSets, TLC

\* ------------------------------------------------------------------ bounds

\* Goroutines that call the detector concurrently.
NumThreads == 2
\* Calls (GetFeatures or RefreshFeatures) started over a detector's lifetime.
MaxCalls == 3
\* Entries of the override map handed to NewFeatureDetector.
MaxOverrides == 2

Threads == 1 .. NumThreads

None == "none"

\* A nil *versionparse.Version.
NoVersion == << >>

\* ---------------------------------------------------------------- versions

\* versionparse.Version, as the triple <<major, minor, patch>>.
v1Dot4Dot7 == <<1, 4, 7>>
v1Dot6Dot0 == <<1, 6, 0>>
v1Dot6Dot2 == <<1, 6, 2>>
v3Dot10Dot0 == <<3, 10, 0>>
v3Dot14Dot0 == <<3, 14, 0>>
v5Dot7Dot0 == <<5, 15, 0>>

\* Version.Compare: -1, 0 or 1, lexicographic on (major, minor, patch).
Compare(a, b) ==
    IF a[1] # b[1] THEN (IF a[1] < b[1] THEN -1 ELSE 1)
    ELSE IF a[2] # b[2] THEN (IF a[2] < b[2] THEN -1 ELSE 1)
    ELSE IF a[3] # b[3] THEN (IF a[3] < b[3] THEN -1 ELSE 1)
    ELSE 0

\* -------------------------------------------------------------------- text

Digits == {"0", "1", "2", "3", "4", "5", "6", "7", "8", "9"}

DigitVal(c) ==
    CASE c = "0" -> 0 [] c = "1" -> 1 [] c = "2" -> 2 [] c = "3" -> 3
      [] c = "4" -> 4 [] c = "5" -> 5 [] c = "6" -> 6 [] c = "7" -> 7
      [] c = "8" -> 8 [] c = "9" -> 9

\* Index of the last character of the longest run of digits of s that starts
\* at i; i - 1 when s[i] is no digit (the greedy \d+ of the regexp).
RECURSIVE DigitsEnd(_, _)
DigitsEnd(s, i) ==
    IF i <= Len(s) /\ s[i] \in Digits THEN DigitsEnd(s, i + 1) ELSE i - 1

IsChar(s, i, c) == i >= 1 /\ i <= Len(s) /\ s[i] = c

\* End of a match of v(\d+\.\d+\.\d+) that starts at i; 0 when there is none.
MatchEnd(s, i) ==
    IF ~IsChar(s, i, "v") THEN 0
    ELSE LET a == DigitsEnd(s, i + 1) IN
         IF a < i + 1 \/ ~IsChar(s, a + 1, ".") THEN 0
         ELSE LET b == DigitsEnd(s, a + 2) IN
              IF b < a + 2 \/ ~IsChar(s, b + 1, ".") THEN 0
              ELSE LET c == DigitsEnd(s, b + 2) IN
                   IF c < b + 2 THEN 0 ELSE c

\* vXDotYDotZRegexp.FindStringSubmatch(s): <<match, group 1>> of the leftmost
\* match, or the empty sequence.
FindStringSubmatch(s) ==
    LET starts == {i \in 1 .. Len(s) : MatchEnd(s, i) > 0} IN
    IF starts = {} THEN << >>
    ELSE LET i == CHOOSE k \in starts : \A j \in starts : k <= j IN
         << SubSeq(s, i, MatchEnd(s, i)), SubSeq(s, i + 1, MatchEnd(s, i)) >>

\* Decimal value of a sequence of digits.
RECURSIVE Atoi(_)
Atoi(ds) ==
    IF ds = << >> THEN 0
    ELSE 10 * Atoi(SubSeq(ds, 1, Len(ds) - 1)) + DigitVal(ds[Len(ds)])

\* versionparse.NewVersion(tok): [err, ver]; a token "X.Y.Z" of three dotted
\* runs of digits parses to <<X, Y, Z>>, anything else is a parse error.
NewVersion(tok) ==
    LET a == DigitsEnd(tok, 1)
        b == DigitsEnd(tok, a + 2)
        c == DigitsEnd(tok, b + 2)
    IN  IF /\ a >= 1 /\ IsChar(tok, a + 1, ".")
           /\ b >= a + 2 /\ IsChar(tok, b + 1, ".")
           /\ c >= b + 2 /\ c = Len(tok)
        THEN [err |-> FALSE,
              ver |-> << Atoi(SubSeq(tok, 1, a)),
                         Atoi(SubSeq(tok, a + 2, b)),
                         Atoi(SubSeq(tok, b + 2, c)) >>]
        ELSE [err |-> TRUE, ver |-> NoVersion]


\* ------------------------------------------------------------------ inputs

\* What NewCmd("iptables", "--version").Output() may return: the bytes written
\* to stdout and whether the run reported an error.  "version" is the version
\* the banner states (None when it states none); the code never sees it.
CmdResults ==
    { [err |-> FALSE, version |-> <<1, 6, 2>>,
       out |-> <<"i", "p", "t", "a", "b", "l", "e", "s", " ", "v", "1", ".", "6", ".", "2">>],
      [err |-> FALSE, version |-> <<1, 8, 4>>,
       out |-> <<"i", "p", "t", "a", "b", "l", "e", "s", " ", "v", "1", ".", "8", ".", "4",
                 " ", "(", "n", "f", "_", "t", "a", "b", "l", "e", "s", ")">>],
      [err |-> FALSE, version |-> <<1, 6, 0>>,
       out |-> <<"d", "e", "v", " ", "v", "1", ".", "6", ".", "0">>],
      [err |-> FALSE, version |-> <<1, 5, 9>>,
       out |-> <<"v", "1", ".", "5", ".", "9">>],
      [err |-> FALSE, version |-> <<1, 6, 1>>,
       out |-> <<"v", "1", ".", "6", ".", "1">>],
      [err |-> FALSE, version |-> <<1, 10, 0>>,
       out |-> <<"v", "1", ".", "1", "0", ".", "0">>],
      [err |-> FALSE, version |-> NoVersion,
       out |-> <<"i", "p", "t", "a", "b", "l", "e", "s", " ", "1", ".", "6", ".", "2">>],
      [err |-> FALSE, version |-> NoVersion,
       out |-> <<"v", "1", ".", "6">>],
      [err |-> FALSE, version |-> NoVersion,
       out |-> <<"V", "2", ".", "0", ".", "0">>],
      [err |-> FALSE, version |-> NoVersion, out |-> << >>],
      [err |-> TRUE, version |-> NoVersion, out |-> << >>],
      [err |-> TRUE, version |-> <<1, 6, 2>>,
       out |-> <<"i", "p", "t", "a", "b", "l", "e", "s", " ", "v", "1", ".", "6", ".", "2">>] }

\* Kernel versions the Version Source may state.
KernelVersions ==
    { <<2, 6, 32>>, <<3, 13, 9>>, <<3, 14, 0>>, <<4, 19, 0>>,
      <<5, 7, 0>>, <<5, 14, 21>>, <<5, 15, 0>>, <<6, 1, 0>> }

\* What d.GetKernelVersionReader() may return: an open error, or a reader
\* whose text either states a kernel version or does not parse.
KernelReaders ==
    { [openErr |-> TRUE, unparsable |-> FALSE, version |-> NoVersion],
      [openErr |-> FALSE, unparsable |-> TRUE, version |-> NoVersion] }
    \cup { [openErr |-> FALSE, unparsable |-> FALSE, version |-> v] : v \in KernelVersions }

\* versionparse.GetKernelVersion(reader): [err, ver].
GetKernelVersion(reader) ==
    IF reader.unparsable THEN [err |-> TRUE, ver |-> NoVersion]
    ELSE [err |-> FALSE, ver |-> reader.version]

\* The answers of a host in the specifications that do not study the probes:
\* a failing and a succeeding tool run (the same banner, with and without a
\* command error), a failing and a succeeding kernel read.
FewCmdResults ==
    {r \in CmdResults : r.version = <<1, 6, 2>>}

FewKernelReaders ==
    {r \in KernelReaders : r.openErr \/ r.version = <<5, 15, 0>>}

\* The fields of Features.
FlagNames ==
    {"SNATFullyRandom", "MASQFullyRandom", "RestoreSupportsLock", "ChecksumOffloadBroken"}

\* Keys and values an operator may put in the override map: the flags, and a
\* name that is no field of Features (FieldByName is case-sensitive).
OverrideKeys == FlagNames \cup {"snatFullyRandom"}

OverrideValues == {"true", "false", "0", "maybe"}

OverrideMaps ==
    UNION { [ks -> OverrideValues] :
            ks \in {s \in SUBSET OverrideKeys : Cardinality(s) <= MaxOverrides} }

\* The override maps of the concurrent specification: none, or one entry for
\* SNATFullyRandom with a value that parses or one that does not.
FewOverrideMaps ==
    { << >> } \cup [{"SNATFullyRandom"} -> {"false", "maybe"}]


\* n lines "-A x", each ended by a newline.
RECURSIVE Rules(_)
Rules(n) ==
    IF n = 0 THEN << >> ELSE << "-", "A", " ", "x", "\n" >> \o Rules(n - 1)

\* What a save command may return from Output(): the bytes written to stdout
\* and whether the run reported an error.  "rules" is the number of lines of
\* the output that start with '-'; the code never sees it.
Dump(n) ==
    << "*", "f", "\n", ":", "I", " ", "-", "\n" >> \o Rules(n)
        \o << "C", "O", "M", "M", "I", "T", "\n" >>

SaveResults ==
    { [err |-> FALSE, rules |-> n, out |-> Dump(n)] : n \in {3, 5, 7} }
    \cup
    { [err |-> FALSE, rules |-> 0, out |-> << >>],
      \* a comment, an empty line, a '-' after a space, a table header
      [err |-> FALSE, rules |-> 0,
       out |-> << "#", " ", "-", "A", "\n", "\n", " ", "-", "A", "\n", "*", "n", "a", "t" >>],
      \* a rule first, and a rule last with no newline after it
      [err |-> FALSE, rules |-> 2,
       out |-> << "-", "A", " ", "-", "j", "\n", "#", "c", "\n", "-", "N" >>],
      [err |-> TRUE, rules |-> 0, out |-> << >>],
      [err |-> TRUE, rules |-> 3, out |-> Dump(3)] }

\* The binaries a host may have.
SaveBinaries ==
    { "ip6tables-legacy-save", "iptables-legacy-save", "ip6tables-nft-save",
      "iptables-nft-save", "ip6tables-save", "iptables-save" }

legacy == << "l", "e", "g", "a", "c", "y" >>
nft == << "n", "f", "t" >>
auto == << "a", "u", "t", "o" >>

\* Values a caller may pass as specifiedBackend.
SpecifiedBackends ==
    { auto, legacy, nft,
      << "A", "u", "t", "o" >>, << "N", "F", "T" >>,
      << "L", "e", "g", "a", "c", "y" >>, << "i", "p", "v", "s" >>, << >> }

\* --------------------------------------------------------------- variables

VARIABLES
    \* FeatureDetector
    lock,             \* d.lock: 0 when free, else the goroutine that holds it
    featureCache,     \* d.featureCache: 0 for nil, else the address of a Features
    heap,             \* the Features values ever published, by address
    featureOverride,  \* d.featureOverride
    loggedOverrides,  \* d.loggedOverrides
    \* a goroutine's call
    pc,               \* where the goroutine is
    op,               \* the call it is in or last made: None, "Get", "Refresh"
    iptV,             \* iptV of refreshFeaturesLockHeld
    kerV,             \* kerV of refreshFeaturesLockHeld
    ret,              \* what its last GetFeatures returned (-1: nothing yet)
    \* observations of the run
    calls,            \* calls started so far
    cycles,           \* probing cycles completed so far
    notices,          \* "Updating detected iptables features" messages so far
    overrideLog,      \* per override key, the override messages logged so far
    computed,         \* the Features the last completed cycle computed
    ioCmd,            \* tool-version commands the goroutine's call has run
    ioKer,            \* kernel-version reads the goroutine's call has made
    probe,            \* what the call's probes were given: [cmd, reader]
    cacheAtCall,      \* whether a cache existed when the call started
    waitFor,          \* the refresh that held the lock when the call started
    pred,             \* the critical section that preceded the call's own
    prev,             \* the last completed critical section
    gets,             \* the GetFeatures results since the last refresh (last 2)
    \* DetectBackend
    installed,        \* the binary names lookPath finds
    bpc,              \* where the call is
    ip6LgcySave,      \* the locals of DetectBackend, by their names
    ip4LgcySave,
    ip6l,
    ip4l,
    legacyLines,
    ip6NftSave,
    ip4NftSave,
    ip6n,
    ip4n,
    nftLines,
    detectedBackend,
    specifiedBackend,
    passed,           \* specifiedBackend as the caller passed it
    returned,         \* what the call returned
    warned,           \* whether the mismatch warning was logged
    lookups,          \* the lookPath calls made: [mode, name]
    commands          \* the commands run: [mode, name, err, rules]

detVars ==
    << lock, featureCache, heap, featureOverride, loggedOverrides, pc, op, iptV,
       kerV, ret, calls, cycles, notices, overrideLog, computed, ioCmd, ioKer,
       probe, cacheAtCall, waitFor, pred, prev, gets >>

bkVars ==
    << installed, bpc, ip6LgcySave, ip4LgcySave, ip6l, ip4l, legacyLines,
       ip6NftSave, ip4NftSave, ip6n, ip4n, nftLines, detectedBackend,
       specifiedBackend, passed, returned, warned, lookups, commands >>

vars == << detVars, bkVars >>

\* ------------------------------------------------------- feature detection

\* Mutant of getIptablesVersion: the error of cmd.Output() is dropped and
\* whatever bytes came back are parsed.
getIptablesVersion_ErrDropped(r) ==
    LET matches == FindStringSubmatch(r.out) IN
    IF Len(matches) = 0 THEN v1Dot4Dot7
    ELSE LET parsed == NewVersion(matches[2]) IN
         IF parsed.err THEN v1Dot4Dot7 ELSE parsed.ver

\* getIptablesVersion, given what cmd.Output() returned.
getIptablesVersion(r) ==
    IF r.err THEN v1Dot4Dot7
    ELSE LET matches == FindStringSubmatch(r.out) IN
         IF Len(matches) = 0 THEN v1Dot4Dot7
         ELSE LET parsed == NewVersion(matches[2]) IN
              IF parsed.err THEN v1Dot4Dot7 ELSE parsed.ver

\* getKernelVersion, given what d.GetKernelVersionReader() returned.
getKernelVersion(reader) ==
    IF reader.openErr THEN v3Dot10Dot0
    ELSE LET parsed == GetKernelVersion(reader) IN
         IF parsed.err THEN v3Dot10Dot0 ELSE parsed.ver

\* Mutant of computeFeatures: MASQFullyRandom tested against 1.6.0, the
\* threshold of SNATFullyRandom.
computeFeatures_MasqAt160(iptables, kernel) ==
    [ SNATFullyRandom |->
          Compare(iptables, v1Dot6Dot0) >= 0 /\ Compare(kernel, v3Dot14Dot0) >= 0,
      MASQFullyRandom |->
          Compare(iptables, v1Dot6Dot0) >= 0 /\ Compare(kernel, v3Dot14Dot0) >= 0,
      RestoreSupportsLock |-> Compare(iptables, v1Dot6Dot2) >= 0,
      ChecksumOffloadBroken |-> Compare(kernel, v5Dot7Dot0) < 0 ]

\* The Features literal of refreshFeaturesLockHeld.
computeFeatures(iptables, kernel) ==
    [ SNATFullyRandom |->
          Compare(iptables, v1Dot6Dot0) >= 0 /\ Compare(kernel, v3Dot14Dot0) >= 0,
      MASQFullyRandom |->
          Compare(iptables, v1Dot6Dot2) >= 0 /\ Compare(kernel, v3Dot14Dot0) >= 0,
      RestoreSupportsLock |-> Compare(iptables, v1Dot6Dot2) >= 0,
      ChecksumOffloadBroken |-> Compare(kernel, v5Dot7Dot0) < 0 ]

\* strconv.ParseBool.
ParseBool(v) ==
    IF v \in {"1", "t", "T", "TRUE", "true", "True"} THEN [err |-> FALSE, val |-> TRUE]
    ELSE IF v \in {"0", "f", "F", "FALSE", "false", "False"}
         THEN [err |-> FALSE, val |-> FALSE]
         ELSE [err |-> TRUE, val |-> FALSE]

\* Mutant of overrideEntry: the error of ParseBool is not tested, so an
\* unparsable value sets the flag to false.
overrideEntry_ErrIgnored(features, k, v) ==
    LET parsed == ParseBool(v) IN
    IF k \in DOMAIN features
    THEN [features |-> [features EXCEPT ![k] = parsed.val], msg |-> "override"]
    ELSE [features |-> features, msg |-> "unknown"]

\* One pass of the override loop for the entry k -> v: the features after it
\* and the message it logs when the overrides have not been logged yet.
overrideEntry(features, k, v) ==
    LET parsed == ParseBool(v) IN
    IF parsed.err THEN [features |-> features, msg |-> "unparsable"]
    ELSE IF k \in DOMAIN features
         THEN [features |-> [features EXCEPT ![k] = parsed.val], msg |-> "override"]
         ELSE [features |-> features, msg |-> "unknown"]

\* Mutant of applyOverrides: the loop is skipped, with its logging, once the
\* overrides have been logged.
RECURSIVE applyOverrides_OnlyOnce(_, _, _)
applyOverrides_OnlyOnce(features, overrides, keys) ==
    IF keys = {} \/ loggedOverrides THEN features
    ELSE LET k == CHOOSE x \in keys : TRUE IN
         applyOverrides_OnlyOnce(overrideEntry(features, k, overrides[k]).features,
                                 overrides, keys \ {k})

\* The override loop over the entries `keys` of d.featureOverride.  Go ranges
\* over a map in no fixed order; each entry writes only the field it names,
\* so the order chosen here does not show in the result.
RECURSIVE applyOverrides(_, _, _)
applyOverrides(features, overrides, keys) ==
    IF keys = {} THEN features
    ELSE LET k == CHOOSE x \in keys : TRUE IN
         applyOverrides(overrideEntry(features, k, overrides[k]).features,
                        overrides, keys \ {k})

\* Mutants of CacheIsNil: the test inverted, and the test dropped.
CacheIsNil_Inverted == featureCache # 0

CacheIsNil_Always == TRUE

\* d.featureCache == nil, as GetFeatures tests it.
CacheIsNil == featureCache = 0

\* Mutant of CanLock: Lock() never waits.
CanLock_NoWait == TRUE

\* d.lock.Lock() returns only when no goroutine holds the lock.
CanLock == lock = 0

\* Mutant of ShouldPublish: every cycle publishes.
ShouldPublish_Always(features) == TRUE

\* d.featureCache == nil || *d.featureCache != features
ShouldPublish(features) == featureCache = 0 \/ heap[featureCache] # features

\* Mutant of Publish: the new value is written into the Features the cache
\* already points to.
Publish_InPlace(h, features) ==
    IF h = << >> THEN Append(h, features) ELSE [h EXCEPT ![Len(h)] = features]

\* d.featureCache = &features: features is a variable of this call of
\* refreshFeaturesLockHeld, so the cache points to a new Features.
Publish(h, features) == Append(h, features)

\* Mutant of ShouldLog: the override messages are logged in every cycle.
ShouldLog_Always == TRUE

\* !d.loggedOverrides, as the override loop tests it before each message.
ShouldLog == ~loggedOverrides

NoProbe == [cmd |-> [err |-> FALSE, version |-> NoVersion, out |-> << >>],
            reader |-> [openErr |-> FALSE, unparsable |-> FALSE, version |-> NoVersion],
            ran |-> FALSE]

NoWait == [by |-> 0, done |-> FALSE, left |-> 0]

NoSection == [op |-> None, probed |-> FALSE]

\* A goroutine calls d.GetFeatures().
CallGetFeatures(t) ==
    /\ pc[t] = "idle"
    /\ calls < MaxCalls
    /\ calls' = calls + 1
    /\ pc' = [pc EXCEPT ![t] = "lock"]
    /\ op' = [op EXCEPT ![t] = "Get"]
    /\ ret' = [ret EXCEPT ![t] = -1]
    /\ ioCmd' = [ioCmd EXCEPT ![t] = 0]
    /\ ioKer' = [ioKer EXCEPT ![t] = 0]
    /\ probe' = [probe EXCEPT ![t] = NoProbe]
    /\ cacheAtCall' = [cacheAtCall EXCEPT ![t] = featureCache # 0]
    /\ waitFor' = [waitFor EXCEPT ![t] =
                      IF lock # 0 /\ op[lock] = "Refresh"
                      THEN [by |-> lock, done |-> FALSE, left |-> 0]
                      ELSE NoWait]
    /\ pred' = [pred EXCEPT ![t] = NoSection]
    /\ UNCHANGED bkVars
    /\ UNCHANGED << lock, featureCache, heap, featureOverride, loggedOverrides,
                    iptV, kerV, cycles, notices, overrideLog, computed, prev, gets >>

\* A goroutine calls d.RefreshFeatures().
CallRefreshFeatures(t) ==
    /\ pc[t] = "idle"
    /\ calls < MaxCalls
    /\ calls' = calls + 1
    /\ pc' = [pc EXCEPT ![t] = "lock"]
    /\ op' = [op EXCEPT ![t] = "Refresh"]
    /\ ret' = [ret EXCEPT ![t] = -1]
    /\ ioCmd' = [ioCmd EXCEPT ![t] = 0]
    /\ ioKer' = [ioKer EXCEPT ![t] = 0]
    /\ probe' = [probe EXCEPT ![t] = NoProbe]
    /\ cacheAtCall' = [cacheAtCall EXCEPT ![t] = featureCache # 0]
    /\ waitFor' = [waitFor EXCEPT ![t] = NoWait]
    /\ pred' = [pred EXCEPT ![t] = NoSection]
    /\ UNCHANGED bkVars
    /\ UNCHANGED << lock, featureCache, heap, featureOverride, loggedOverrides,
                    iptV, kerV, cycles, notices, overrideLog, computed, prev, gets >>

\* GetFeatures takes the lock and tests the cache: it goes on to
\* refreshFeaturesLockHeld when the cache is nil, to its return otherwise.
GetFeaturesLock(t) ==
    /\ pc[t] = "lock"
    /\ op[t] = "Get"
    /\ CanLock
    /\ lock' = t
    /\ pc' = [pc EXCEPT ![t] = IF CacheIsNil THEN "iptables" ELSE "return"]
    /\ pred' = [pred EXCEPT ![t] = prev]
    /\ UNCHANGED bkVars
    /\ UNCHANGED << featureCache, heap, featureOverride, loggedOverrides, op, iptV,
                    kerV, ret, calls, cycles, notices, overrideLog, computed, ioCmd,
                    ioKer, probe, cacheAtCall, waitFor, prev, gets >>

\* Mutant of RefreshFeaturesLock: like GetFeatures, a refresh probes only
\* when the cache is nil.
RefreshFeaturesLock_IfNil(t) ==
    /\ pc[t] = "lock"
    /\ op[t] = "Refresh"
    /\ CanLock
    /\ lock' = t
    /\ pc' = [pc EXCEPT ![t] = IF CacheIsNil THEN "iptables" ELSE "return"]
    /\ pred' = [pred EXCEPT ![t] = prev]
    /\ gets' = << >>
    /\ UNCHANGED bkVars
    /\ UNCHANGED << featureCache, heap, featureOverride, loggedOverrides, op, iptV,
                    kerV, ret, calls, cycles, notices, overrideLog, computed, ioCmd,
                    ioKer, probe, cacheAtCall, waitFor, prev >>

\* RefreshFeatures takes the lock and goes on to refreshFeaturesLockHeld.
RefreshFeaturesLock(t) ==
    /\ pc[t] = "lock"
    /\ op[t] = "Refresh"
    /\ CanLock
    /\ lock' = t
    /\ pc' = [pc EXCEPT ![t] = "iptables"]
    /\ pred' = [pred EXCEPT ![t] = prev]
    /\ gets' = << >>
    /\ UNCHANGED bkVars
    /\ UNCHANGED << featureCache, heap, featureOverride, loggedOverrides, op, iptV,
                    kerV, ret, calls, cycles, notices, overrideLog, computed, ioCmd,
                    ioKer, probe, cacheAtCall, waitFor, prev >>

\* iptV := d.getIptablesVersion(): runs "iptables --version".
RunIptablesVersion(t, results) ==
    /\ pc[t] = "iptables"
    /\ \E r \in results :
          /\ iptV' = [iptV EXCEPT ![t] = getIptablesVersion(r)]
          /\ probe' = [probe EXCEPT ![t].cmd = r, ![t].ran = TRUE]
    /\ ioCmd' = [ioCmd EXCEPT ![t] = @ + 1]
    /\ pc' = [pc EXCEPT ![t] = "kernel"]
    /\ UNCHANGED bkVars
    /\ UNCHANGED << lock, featureCache, heap, featureOverride, loggedOverrides, op,
                    kerV, ret, calls, cycles, notices, overrideLog, computed, ioKer,
                    cacheAtCall, waitFor, pred, prev, gets >>

\* kerV := d.getKernelVersion(): reads the kernel version source.
ReadKernelVersion(t, readers) ==
    /\ pc[t] = "kernel"
    /\ \E r \in readers :
          /\ kerV' = [kerV EXCEPT ![t] = getKernelVersion(r)]
          /\ probe' = [probe EXCEPT ![t].reader = r]
    /\ ioKer' = [ioKer EXCEPT ![t] = @ + 1]
    /\ pc' = [pc EXCEPT ![t] = "features"]
    /\ UNCHANGED bkVars
    /\ UNCHANGED << lock, featureCache, heap, featureOverride, loggedOverrides, op,
                    iptV, ret, calls, cycles, notices, overrideLog, computed, ioCmd,
                    cacheAtCall, waitFor, pred, prev, gets >>

\* The rest of refreshFeaturesLockHeld: compute the flags, apply the
\* overrides, set loggedOverrides, and publish when the result is new.
UpdateFeatures(t) ==
    /\ pc[t] = "features"
    /\ LET features == applyOverrides(computeFeatures(iptV[t], kerV[t]),
                                      featureOverride, DOMAIN featureOverride)
       IN  /\ overrideLog' =
                 [k \in DOMAIN featureOverride |->
                     IF ShouldLog
                     THEN Append(overrideLog[k],
                                 overrideEntry(features, k, featureOverride[k]).msg)
                     ELSE overrideLog[k]]
           /\ IF ShouldPublish(features)
              THEN /\ heap' = Publish(heap, features)
                   /\ featureCache' = Len(heap')
                   /\ notices' = notices + 1
              ELSE UNCHANGED << heap, featureCache, notices >>
           /\ computed' = << features >>
    /\ loggedOverrides' = TRUE
    /\ cycles' = cycles + 1
    /\ pc' = [pc EXCEPT ![t] = "return"]
    /\ UNCHANGED bkVars
    /\ UNCHANGED << lock, featureOverride, op, iptV, kerV, ret, calls, ioCmd, ioKer,
                    probe, cacheAtCall, waitFor, pred, prev, gets >>

\* GetFeatures returns d.featureCache and its deferred Unlock runs.
GetFeaturesReturn(t) ==
    /\ pc[t] = "return"
    /\ op[t] = "Get"
    /\ ret' = [ret EXCEPT ![t] = featureCache]
    /\ lock' = 0
    /\ pc' = [pc EXCEPT ![t] = "idle"]
    /\ iptV' = [iptV EXCEPT ![t] = NoVersion]
    /\ kerV' = [kerV EXCEPT ![t] = NoVersion]
    /\ probe' = [probe EXCEPT ![t] = NoProbe]
    /\ prev' = [op |-> "Get", probed |-> ioCmd[t] > 0]
    /\ LET g == [ptr |-> featureCache,
                 val |-> IF featureCache = 0 THEN << >> ELSE << heap[featureCache] >>,
                 cmd |-> ioCmd[t], ker |-> ioKer[t]]
       IN  gets' = IF Len(gets) = 2 THEN << gets[2], g >> ELSE Append(gets, g)
    /\ UNCHANGED bkVars
    /\ UNCHANGED << featureCache, heap, featureOverride, loggedOverrides, op, calls,
                    cycles, notices, overrideLog, computed, ioCmd, ioKer,
                    cacheAtCall, waitFor, pred >>

\* RefreshFeatures returns and its deferred Unlock runs.
RefreshFeaturesReturn(t) ==
    /\ pc[t] = "return"
    /\ op[t] = "Refresh"
    /\ lock' = 0
    /\ pc' = [pc EXCEPT ![t] = "idle"]
    /\ iptV' = [iptV EXCEPT ![t] = NoVersion]
    /\ kerV' = [kerV EXCEPT ![t] = NoVersion]
    /\ probe' = [probe EXCEPT ![t] = NoProbe]
    /\ prev' = [op |-> "Refresh", probed |-> ioCmd[t] > 0]
    /\ waitFor' = [u \in Threads |->
                      IF waitFor[u].by = t /\ ~waitFor[u].done
                      THEN [by |-> t, done |-> TRUE, left |-> featureCache]
                      ELSE waitFor[u]]
    /\ UNCHANGED bkVars
    /\ UNCHANGED << featureCache, heap, featureOverride, loggedOverrides, op, ret,
                    calls, cycles, notices, overrideLog, computed, ioCmd, ioKer,
                    cacheAtCall, pred, gets >>

\* ---------------------------------------------------------- DetectBackend

\* bytes.Split(in, []byte("\n")): the pieces of `in` between newlines (one
\* more piece than there are newlines).
RECURSIVE Split(_)
Split(in) ==
    LET nl == {i \in 1 .. Len(in) : in[i] = "\n"} IN
    IF nl = {} THEN << in >>
    ELSE LET i == CHOOSE k \in nl : \A j \in nl : k <= j IN
         << SubSeq(in, 1, i - 1) >> \o Split(SubSeq(in, i + 1, Len(in)))

\* Mutant of countRulesInIptableOutput: a '-' anywhere in the line counts.
countRulesInIptableOutput_AnyDash(in) ==
    LET lines == Split(in) IN
    Cardinality({i \in 1 .. Len(lines) :
                    \E j \in 1 .. Len(lines[i]) : lines[i][j] = "-"})

countRulesInIptableOutput(in) ==
    LET lines == Split(in) IN
    Cardinality({i \in 1 .. Len(lines) : Len(lines[i]) >= 1 /\ lines[i][1] = "-"})

\* The candidates of findBestBinary, in the order it tries them.
candidates(ipVersion, backendMode, saveOrRestore) ==
    LET verInfix == IF ipVersion = 6 THEN "6" ELSE "" IN
    << "ip" \o verInfix \o "tables-" \o backendMode \o "-" \o saveOrRestore,
       "ip" \o verInfix \o "tables-" \o saveOrRestore >>

\* Mutant of findBestBinary: the generic name is tried before the name of
\* the mode.
findBestBinary_GenericFirst(ipVersion, backendMode, saveOrRestore) ==
    LET c == candidates(ipVersion, backendMode, saveOrRestore) IN
    IF c[2] \in installed
    THEN [panic |-> FALSE, name |-> c[2], tried |-> << c[2] >>]
    ELSE IF c[1] \in installed
         THEN [panic |-> FALSE, name |-> c[1], tried |-> << c[2], c[1] >>]
         ELSE [panic |-> TRUE, name |-> "", tried |-> << c[2], c[1] >>]

\* findBestBinary: the first candidate lookPath finds and the candidates it
\* looked up; it panics when lookPath finds none.
findBestBinary(ipVersion, backendMode, saveOrRestore) ==
    LET c == candidates(ipVersion, backendMode, saveOrRestore) IN
    IF c[1] \in installed
    THEN [panic |-> FALSE, name |-> c[1], tried |-> << c[1] >>]
    ELSE IF c[2] \in installed
         THEN [panic |-> FALSE, name |-> c[2], tried |-> << c[1], c[2] >>]
         ELSE [panic |-> TRUE, name |-> "", tried |-> << c[1], c[2] >>]

\* strings.ToLower, on the letters the sample strings use.
ToLowerChar(c) ==
    CASE c = "A" -> "a" [] c = "C" -> "c" [] c = "E" -> "e" [] c = "F" -> "f"
      [] c = "G" -> "g" [] c = "L" -> "l" [] c = "N" -> "n" [] c = "O" -> "o"
      [] c = "T" -> "t" [] c = "U" -> "u" [] c = "Y" -> "y"
      [] OTHER -> c

\* Mutant of ToLower: the string is left as it was passed.
ToLower_Identity(str) == str

ToLower(str) == [i \in 1 .. Len(str) |-> ToLowerChar(str[i])]

\* Mutant of UseSpecified: the "auto" sentinel is not recognised.
UseSpecified_Always(lower) == TRUE

\* specifiedBackend != "auto", tested on the lower-cased argument.
UseSpecified(lower) == lower # auto

\* Mutants of LegacyDecisive and LegacyWins: the comparisons made strict.
LegacyDecisive_Strict(lines) == lines > 10

LegacyWins_Strict(lLines, nLines) == lLines > nLines

\* legacyLines >= 10: the legacy evidence settles it.
LegacyDecisive(lines) == lines >= 10

\* legacyLines >= nftLines
LegacyWins(lLines, nLines) == lLines >= nLines

Tag(mode, names) == [i \in 1 .. Len(names) |-> [mode |-> mode, name |-> names[i]]]

Ran(mode, name, r) == [mode |-> mode, name |-> name, err |-> r.err, rules |-> r.rules]

\* The locals of DetectBackend before the call has set them.
LocalsUnset ==
    /\ ip6LgcySave = "" /\ ip4LgcySave = ""
    /\ ip6l = << >> /\ ip4l = << >>
    /\ legacyLines = 0
    /\ ip6NftSave = "" /\ ip4NftSave = ""
    /\ ip6n = << >> /\ ip4n = << >>
    /\ nftLines = 0
    /\ detectedBackend = << >>
    /\ specifiedBackend = << >>
    /\ passed = << >>
    /\ returned = << >>
    /\ warned = FALSE
    /\ lookups = << >>
    /\ commands = << >>

\* ip6LgcySave := findBestBinary(lookPath, 6, "legacy", "save") and
\* ip4LgcySave := findBestBinary(lookPath, 4, "legacy", "save").
FindLegacySave ==
    /\ bpc = "findLegacy"
    /\ LET b6 == findBestBinary(6, "legacy", "save")
           b4 == findBestBinary(4, "legacy", "save")
       IN  IF b6.panic
           THEN /\ bpc' = "panic"
                /\ lookups' = lookups \o Tag("legacy", b6.tried)
                /\ UNCHANGED << ip6LgcySave, ip4LgcySave >>
           ELSE IF b4.panic
                THEN /\ bpc' = "panic"
                     /\ lookups' = lookups \o Tag("legacy", b6.tried \o b4.tried)
                     /\ ip6LgcySave' = b6.name
                     /\ UNCHANGED ip4LgcySave
                ELSE /\ bpc' = "runLegacy6"
                     /\ lookups' = lookups \o Tag("legacy", b6.tried \o b4.tried)
                     /\ ip6LgcySave' = b6.name
                     /\ ip4LgcySave' = b4.name
    /\ UNCHANGED detVars
    /\ UNCHANGED << installed, ip6l, ip4l, legacyLines, ip6NftSave, ip4NftSave, ip6n,
                    ip4n, nftLines, detectedBackend, specifiedBackend, passed, returned,
                    warned, commands >>

\* ip6l, _ := newCmd(ip6LgcySave).Output()
RunLegacy6 ==
    /\ bpc = "runLegacy6"
    /\ \E r \in SaveResults :
          /\ ip6l' = r.out
          /\ commands' = Append(commands, Ran("legacy", ip6LgcySave, r))
    /\ bpc' = "runLegacy4"
    /\ UNCHANGED detVars
    /\ UNCHANGED << installed, ip6LgcySave, ip4LgcySave, ip4l, legacyLines,
                    ip6NftSave, ip4NftSave, ip6n, ip4n, nftLines, detectedBackend,
                    specifiedBackend, passed, returned, warned, lookups >>

\* ip4l, _ := newCmd(ip4LgcySave).Output()
RunLegacy4 ==
    /\ bpc = "runLegacy4"
    /\ \E r \in SaveResults :
          /\ ip4l' = r.out
          /\ commands' = Append(commands, Ran("legacy", ip4LgcySave, r))
    /\ bpc' = "countLegacy"
    /\ UNCHANGED detVars
    /\ UNCHANGED << installed, ip6LgcySave, ip4LgcySave, ip6l, legacyLines,
                    ip6NftSave, ip4NftSave, ip6n, ip4n, nftLines, detectedBackend,
                    specifiedBackend, passed, returned, warned, lookups >>

\* legacyLines := ...; if legacyLines >= 10 { detectedBackend = "legacy" }
\* else go on to the nft commands.
CountLegacy ==
    /\ bpc = "countLegacy"
    /\ LET lines == countRulesInIptableOutput(ip6l) + countRulesInIptableOutput(ip4l)
       IN  /\ legacyLines' = lines
           /\ IF LegacyDecisive(lines)
              THEN detectedBackend' = legacy /\ bpc' = "select"
              ELSE UNCHANGED detectedBackend /\ bpc' = "findNft"
    /\ UNCHANGED detVars
    /\ UNCHANGED << installed, ip6LgcySave, ip4LgcySave, ip6l, ip4l, ip6NftSave,
                    ip4NftSave, ip6n, ip4n, nftLines, specifiedBackend, passed, returned,
                    warned, lookups, commands >>

\* ip6NftSave := findBestBinary(lookPath, 6, "nft", "save") and
\* ip4NftSave := findBestBinary(lookPath, 4, "nft", "save").
FindNftSave ==
    /\ bpc = "findNft"
    /\ LET b6 == findBestBinary(6, "nft", "save")
           b4 == findBestBinary(4, "nft", "save")
       IN  IF b6.panic
           THEN /\ bpc' = "panic"
                /\ lookups' = lookups \o Tag("nft", b6.tried)
                /\ UNCHANGED << ip6NftSave, ip4NftSave >>
           ELSE IF b4.panic
                THEN /\ bpc' = "panic"
                     /\ lookups' = lookups \o Tag("nft", b6.tried \o b4.tried)
                     /\ ip6NftSave' = b6.name
                     /\ UNCHANGED ip4NftSave
                ELSE /\ bpc' = "runNft6"
                     /\ lookups' = lookups \o Tag("nft", b6.tried \o b4.tried)
                     /\ ip6NftSave' = b6.name
                     /\ ip4NftSave' = b4.name
    /\ UNCHANGED detVars
    /\ UNCHANGED << installed, ip6LgcySave, ip4LgcySave, ip6l, ip4l, legacyLines,
                    ip6n, ip4n, nftLines, detectedBackend, specifiedBackend, passed,
                    returned, warned, commands >>

\* ip6n, _ := newCmd(ip6NftSave).Output()
RunNft6 ==
    /\ bpc = "runNft6"
    /\ \E r \in SaveResults :
          /\ ip6n' = r.out
          /\ commands' = Append(commands, Ran("nft", ip6NftSave, r))
    /\ bpc' = "runNft4"
    /\ UNCHANGED detVars
    /\ UNCHANGED << installed, ip6LgcySave, ip4LgcySave, ip6l, ip4l, legacyLines,
                    ip6NftSave, ip4NftSave, ip4n, nftLines, detectedBackend,
                    specifiedBackend, passed, returned, warned, lookups >>

\* ip4n, _ := newCmd(ip4NftSave).Output()
RunNft4 ==
    /\ bpc = "runNft4"
    /\ \E r \in SaveResults :
          /\ ip4n' = r.out
          /\ commands' = Append(commands, Ran("nft", ip4NftSave, r))
    /\ bpc' = "countNft"
    /\ UNCHANGED detVars
    /\ UNCHANGED << installed, ip6LgcySave, ip4LgcySave, ip6l, ip4l, legacyLines,
                    ip6NftSave, ip4NftSave, ip6n, nftLines, detectedBackend,
                    specifiedBackend, passed, returned, warned, lookups >>

\* nftLines := ...; detectedBackend is "legacy" if legacyLines >= nftLines,
\* "nft" otherwise.
CountNft ==
    /\ bpc = "countNft"
    /\ LET lines == countRulesInIptableOutput(ip6n) + countRulesInIptableOutput(ip4n)
       IN  /\ nftLines' = lines
           /\ detectedBackend' = IF LegacyWins(legacyLines, lines) THEN legacy ELSE nft
    /\ bpc' = "select"
    /\ UNCHANGED detVars
    /\ UNCHANGED << installed, ip6LgcySave, ip4LgcySave, ip6l, ip4l, legacyLines,
                    ip6NftSave, ip4NftSave, ip6n, ip4n, specifiedBackend, passed, returned,
                    warned, lookups, commands >>

\* The end of DetectBackend for the specifiedBackend the caller passed: it
\* is lower-cased, and returned unless it is "auto"; a warning is logged when
\* it differs from the detected backend.
SelectBackend ==
    /\ bpc = "select"
    /\ \E given \in SpecifiedBackends :
          LET lower == ToLower(given) IN
          /\ passed' = given
          /\ specifiedBackend' = lower
          /\ IF UseSpecified(lower)
             THEN /\ warned' = (lower # detectedBackend)
                  /\ returned' = lower
             ELSE /\ warned' = FALSE
                  /\ returned' = detectedBackend
    /\ bpc' = "done"
    /\ UNCHANGED detVars
    /\ UNCHANGED << installed, ip6LgcySave, ip4LgcySave, ip6l, ip4l, legacyLines,
                    ip6NftSave, ip4NftSave, ip6n, ip4n, nftLines, detectedBackend,
                    lookups, commands >>

\* No DetectBackend call is made.
BackendNotCalled ==
    /\ installed = {}
    /\ bpc = "off"
    /\ LocalsUnset

\* DetectBackend is called on a host that has some of the save binaries.
DetectBackendCalled ==
    /\ installed \in SUBSET SaveBinaries
    /\ bpc = "findLegacy"
    /\ LocalsUnset

NextBackend ==
    \/ FindLegacySave
    \/ RunLegacy6
    \/ RunLegacy4
    \/ CountLegacy
    \/ FindNftSave
    \/ RunNft6
    \/ RunNft4
    \/ CountNft
    \/ SelectBackend

\* NewFeatureDetector(overrides) with overrides drawn from `maps`, no call
\* made yet.
NewFeatureDetector(maps) ==
    /\ lock = 0
    /\ featureCache = 0
    /\ heap = << >>
    /\ featureOverride \in maps
    /\ loggedOverrides = FALSE
    /\ pc = [t \in Threads |-> "idle"]
    /\ op = [t \in Threads |-> None]
    /\ iptV = [t \in Threads |-> NoVersion]
    /\ kerV = [t \in Threads |-> NoVersion]
    /\ ret = [t \in Threads |-> -1]
    /\ calls = 0
    /\ cycles = 0
    /\ notices = 0
    /\ overrideLog = [k \in DOMAIN featureOverride |-> << >>]
    /\ computed = << >>
    /\ ioCmd = [t \in Threads |-> 0]
    /\ ioKer = [t \in Threads |-> 0]
    /\ probe = [t \in Threads |-> NoProbe]
    /\ cacheAtCall = [t \in Threads |-> FALSE]
    /\ waitFor = [t \in Threads |-> NoWait]
    /\ pred = [t \in Threads |-> NoSection]
    /\ prev = NoSection
    /\ gets = << >>

\* The goroutines `callers` using the detector on a host whose tool answers
\* from `results` and whose kernel version source answers from `readers`.
Detector(callers, results, readers) ==
    \E t \in callers :
        \/ CallGetFeatures(t)
        \/ CallRefreshFeatures(t)
        \/ GetFeaturesLock(t)
        \/ RefreshFeaturesLock(t)
        \/ RunIptablesVersion(t, results)
        \/ ReadKernelVersion(t, readers)
        \/ UpdateFeatures(t)
        \/ GetFeaturesReturn(t)
        \/ RefreshFeaturesReturn(t)

\* Concurrent callers, at most one override, a host that answers with one of
\* a few tool and kernel answers on either side of the thresholds.
Init == NewFeatureDetector(FewOverrideMaps) /\ BackendNotCalled

Next == Detector(Threads, FewCmdResults, FewKernelReaders)

Spec == Init /\ [][Next]_vars

\* One caller, every override map, the few answers of the host.
InitOverride == NewFeatureDetector(OverrideMaps) /\ BackendNotCalled

NextOverride == Detector({1}, FewCmdResults, FewKernelReaders)

SpecOverride == InitOverride /\ [][NextOverride]_vars

\* One caller, no overrides, every sample answer of the tool and the kernel.
InitProbe == NewFeatureDetector({<< >>}) /\ BackendNotCalled

NextProbe == Detector({1}, CmdResults, KernelReaders)

SpecProbe == InitProbe /\ [][NextProbe]_vars

\* Goroutines that only call GetFeatures, at most one override, every sample
\* answer of the tool and the kernel.
InitGets == NewFeatureDetector(FewOverrideMaps) /\ BackendNotCalled

NextGets ==
    \E t \in Threads :
        \/ CallGetFeatures(t)
        \/ GetFeaturesLock(t)
        \/ RunIptablesVersion(t, CmdResults)
        \/ ReadKernelVersion(t, KernelReaders)
        \/ UpdateFeatures(t)
        \/ GetFeaturesReturn(t)

SpecGets == InitGets /\ [][NextGets]_vars

\* One DetectBackend call, next to a detector nobody calls.
InitBackend == NewFeatureDetector({<< >>}) /\ DetectBackendCalled

SpecBackend == InitBackend /\ [][NextBackend]_vars


\* ------------------------------------------------------------------ claims

\* The goroutines inside a section that d.lock guards.
InSection == {t \in Threads : pc[t] \in {"iptables", "kernel", "features", "return"}}

\* C1: two GetFeatures() calls with no RefreshFeatures() between them return
\* Features equal by value, and together run at most one probing cycle (one
\* tool-version command, one kernel-version read): the second never probes.
C1_RepeatedGetIsCached ==
    Len(gets) = 2 =>
        /\ gets[1].val = gets[2].val
        /\ gets[2].cmd = 0 /\ gets[2].ker = 0
        /\ gets[1].cmd + gets[2].cmd <= 1
        /\ gets[1].ker + gets[2].ker <= 1

\* Two GetFeatures() in a row on a fresh detector: the first one probed.
C1_Witness ==
    /\ Len(gets) = 2
    /\ gets[1].cmd = 1 /\ gets[1].ker = 1
    /\ gets[2].ptr # 0 /\ gets[2].cmd = 0

\* C2: every RefreshFeatures() call runs a full probing cycle (the
\* tool-version command and the kernel-version read), whatever the cache
\* state, also right after a GetFeatures() that filled the cache.
C2_RefreshAlwaysProbes ==
    \A t \in Threads :
        (op[t] = "Refresh" /\ pc[t] \in {"return", "idle"}) =>
            (ioCmd[t] = 1 /\ ioKer[t] = 1)

\* A RefreshFeatures() that returned, called when the cache existed and run
\* right after the GetFeatures() that filled it.
C2_Witness ==
    \E t \in Threads :
        /\ op[t] = "Refresh" /\ pc[t] = "idle"
        /\ cacheAtCall[t]
        /\ pred[t] = [op |-> "Get", probed |-> TRUE]
        /\ ioCmd[t] = 1 /\ ioKer[t] = 1

\* C3 (as claimed): GetFeatures and RefreshFeatures are mutually exclusive,
\* and a GetFeatures that starts while a RefreshFeatures holds the lock
\* returns only after that refresh has finished and returns the Features
\* that refresh left in the cache.
C3_ReturnsWhatThatRefreshLeft ==
    /\ Cardinality(InSection) <= 1
    /\ \A t \in Threads :
          (op[t] = "Get" /\ waitFor[t].by # 0) =>
              /\ (pc[t] # "lock") => waitFor[t].done
              /\ (pc[t] = "idle") =>
                    (ret[t] # 0 /\ heap[ret[t]] = heap[waitFor[t].left])

\* C3 (amended): GetFeatures and RefreshFeatures are mutually exclusive, and a
\* GetFeatures that starts while a RefreshFeatures holds the lock takes the
\* lock only after that refresh has finished and returns the Features in the
\* cache at that moment: those that refresh left there, or those a later
\* probing cycle that completed first published; never an absent or a
\* partially computed value.
C3_MutualExclusion ==
    /\ Cardinality(InSection) <= 1
    /\ \A t \in Threads :
          (op[t] = "Get" /\ waitFor[t].by # 0) =>
              /\ (pc[t] # "lock") => waitFor[t].done
              /\ (pc[t] = "return") =>
                    (featureCache # 0 /\ computed = << heap[featureCache] >>)
              /\ (pc[t] = "idle") =>
                    /\ ret[t] \in waitFor[t].left .. Len(heap)
                    /\ ret[t] # 0
                    /\ DOMAIN heap[ret[t]] = FlagNames

\* A GetFeatures() that started while a refresh held the lock and has
\* returned what that refresh left.
C3_Witness ==
    \E t \in Threads :
        /\ op[t] = "Get" /\ pc[t] = "idle"
        /\ waitFor[t].by # 0 /\ waitFor[t].done
        /\ ret[t] = waitFor[t].left

\* C4 (as claimed): a GetFeatures() called when a cache exists runs neither
\* the tool-version command nor the kernel-version read, and its completion
\* does not wait on an external probe in progress.
C4_NeverWaitsOnProbe ==
    \A t \in Threads :
        (op[t] = "Get" /\ cacheAtCall[t]) =>
            /\ ioCmd[t] = 0 /\ ioKer[t] = 0
            /\ pc[t] \notin {"iptables", "kernel", "features"}
            /\ (pc[t] = "lock") =>
                  ~(\E u \in Threads : lock = u /\ pc[u] \in {"iptables", "kernel"})

\* C4 (amended): a GetFeatures() called when a cache exists runs neither the
\* tool-version command nor the kernel-version read itself and returns the
\* cached Features; it may still wait for d.lock while a concurrent
\* RefreshFeatures() probes.
C4_CachedGetRunsNoProbe ==
    \A t \in Threads :
        (op[t] = "Get" /\ cacheAtCall[t]) =>
            /\ ioCmd[t] = 0 /\ ioKer[t] = 0
            /\ pc[t] \notin {"iptables", "kernel", "features"}
            /\ (pc[t] = "idle") => ret[t] # 0

\* A GetFeatures() that was called when a cache existed and has returned.
C4_Witness ==
    \E t \in Threads :
        /\ op[t] = "Get" /\ cacheAtCall[t]
        /\ pc[t] = "idle" /\ ret[t] > 0

\* a >= b in the lexicographic order on (major, minor, patch).
VersionGE(a, b) ==
    \/ a[1] > b[1]
    \/ a[1] = b[1] /\ a[2] > b[2]
    \/ a[1] = b[1] /\ a[2] = b[2] /\ a[3] >= b[3]

ValidOverrides ==
    {k \in DOMAIN featureOverride : k \in FlagNames /\ ~ParseBool(featureOverride[k]).err}

\* C6: an override entry whose key names a flag and whose value parses as a
\* boolean sets that flag to the override value in the Features published by
\* every probing cycle, the first and every later one, whatever was probed;
\* {"SNATFullyRandom": "false"} makes SNATFullyRandom false in every state of
\* the cache.
C6_OverrideForcesFlag ==
    /\ \A i \in 1 .. Len(heap) : \A k \in ValidOverrides :
          heap[i][k] = ParseBool(featureOverride[k]).val
    /\ \A k \in ValidOverrides :
          (computed # << >>) => computed[1][k] = ParseBool(featureOverride[k]).val
    /\ ("SNATFullyRandom" \in DOMAIN featureOverride
           /\ featureOverride["SNATFullyRandom"] = "false" /\ featureCache # 0)
          => ~heap[featureCache].SNATFullyRandom

\* A second probing cycle whose versions support SNATFullyRandom, published
\* with the flag forced false by the override.
C6_Witness ==
    \E t \in Threads :
        /\ pc[t] = "return" /\ op[t] = "Refresh" /\ cycles >= 2
        /\ "SNATFullyRandom" \in DOMAIN featureOverride
        /\ featureOverride["SNATFullyRandom"] = "false"
        /\ computeFeatures(iptV[t], kerV[t]).SNATFullyRandom
        /\ ~heap[featureCache].SNATFullyRandom

\* C7: an override entry whose value does not parse as a boolean or whose key
\* names no flag changes no flag: the Features the refresh publishes are those
\* computed from the probed versions and the valid overrides alone, and the
\* refresh still completes and publishes.
C7_InvalidOverrideIgnored ==
    \A t \in Threads :
        (DOMAIN featureOverride # ValidOverrides) =>
            /\ (pc[t] = "features") => ENABLED UpdateFeatures(t)
            /\ (pc[t] = "return" /\ probe[t].ran) =>
                  /\ featureCache # 0
                  /\ heap[featureCache] =
                        [k \in FlagNames |->
                            IF k \in ValidOverrides
                            THEN ParseBool(featureOverride[k]).val
                            ELSE computeFeatures(iptV[t], kerV[t])[k]]

\* A refresh that published with a valid override and with "maybe" given for
\* a flag the probed versions make true.
C7_Witness ==
    \E t \in Threads : \E k \in DOMAIN featureOverride :
        /\ pc[t] = "return" /\ probe[t].ran
        /\ ValidOverrides # {}
        /\ k \in FlagNames /\ featureOverride[k] = "maybe"
        /\ computeFeatures(iptV[t], kerV[t])[k]
        /\ heap[featureCache][k]

\* The tool-version probe failed: a command error, empty output, or output
\* that states no version.
ToolProbeFailed(r) == r.err \/ r.out = << >> \/ r.version = NoVersion

\* The kernel-version probe failed: an open error or a parse error.
KernelProbeFailed(r) == r.openErr \/ r.unparsable

\* C8: detection never aborts on a probe failure: a failed tool-version probe
\* gives tool Version 1.4.7, a failed kernel-version probe kernel Version
\* 3.10.0; the call still completes, leaves a non-absent cache, and (absent
\* overrides) SNATFullyRandom, MASQFullyRandom and RestoreSupportsLock are
\* false after a tool failure, SNATFullyRandom and MASQFullyRandom false and
\* ChecksumOffloadBroken true after a kernel failure.
C8_ProbeFailureFallsBack ==
    \A t \in Threads :
        /\ (pc[t] = "features") => ENABLED UpdateFeatures(t)
        /\ (pc[t] = "return") => ENABLED (GetFeaturesReturn(t) \/ RefreshFeaturesReturn(t))
        /\ (op[t] = "Get" /\ pc[t] = "idle") => ret[t] > 0
        /\ (pc[t] = "return" /\ probe[t].ran) =>
              /\ featureCache # 0
              /\ ToolProbeFailed(probe[t].cmd) =>
                    /\ iptV[t] = <<1, 4, 7>>
                    /\ (DOMAIN featureOverride = {}) =>
                          /\ ~heap[featureCache].SNATFullyRandom
                          /\ ~heap[featureCache].MASQFullyRandom
                          /\ ~heap[featureCache].RestoreSupportsLock
              /\ KernelProbeFailed(probe[t].reader) =>
                    /\ kerV[t] = <<3, 10, 0>>
                    /\ (DOMAIN featureOverride = {}) =>
                          /\ ~heap[featureCache].SNATFullyRandom
                          /\ ~heap[featureCache].MASQFullyRandom
                          /\ heap[featureCache].ChecksumOffloadBroken

\* A cycle that published after the tool command reported an error although
\* it printed a banner, and the kernel version source did not parse.
C8_Witness ==
    \E t \in Threads :
        /\ pc[t] = "return" /\ probe[t].ran
        /\ probe[t].cmd.err /\ probe[t].cmd.out # << >>
        /\ probe[t].reader.unparsable
        /\ featureCache # 0


\* The lines starting with '-' in what the commands of a mode printed.
RECURSIVE TotalRules(_, _)
TotalRules(mode, runs) ==
    IF runs = << >> THEN 0
    ELSE (IF Head(runs).mode = mode THEN Head(runs).rules ELSE 0)
         + TotalRules(mode, Tail(runs))

\* C9: in DetectBackend, when the legacy-mode configuration-line total over
\* IPv6 and IPv4 is at least 10, the detected backend is "legacy" and the nft
\* phase is skipped: no nft-mode binary name is resolved and no nft-mode
\* command is run during the call.
C9_LegacyShortCircuit ==
    (Len(commands) >= 2 /\ TotalRules("legacy", commands) >= 10) =>
        /\ bpc \in {"countLegacy", "select", "done"}
        /\ \A i \in 1 .. Len(lookups) : lookups[i].mode # "nft"
        /\ \A i \in 1 .. Len(commands) : commands[i].mode # "nft"
        /\ (bpc \in {"select", "done"}) => detectedBackend = legacy

\* A call that ended after the legacy commands printed 12 rule lines.
C9_Witness ==
    /\ bpc = "done"
    /\ TotalRules("legacy", commands) = 12
    /\ detectedBackend = legacy
    /\ Len(commands) = 2

\* C10: in DetectBackend, when the legacy total L is below 10 the nft phase is
\* run and the detected backend is "nft" if and only if the nft total N is
\* strictly greater than L; L >= N (also L = N, and L = N = 0) gives "legacy";
\* L = 3, N = 7 gives "nft".
C10_LargerTotalWins ==
    (bpc \in {"select", "done"} /\ TotalRules("legacy", commands) < 10) =>
        LET L == TotalRules("legacy", commands)
            N == TotalRules("nft", commands)
        IN  /\ Len(commands) = 4
            /\ commands[3].mode = "nft" /\ commands[4].mode = "nft"
            /\ (detectedBackend = nft) <=> (N > L)
            /\ (detectedBackend = legacy) <=> (L >= N)
            /\ (L = 3 /\ N = 7) => detectedBackend = nft

\* A call that ended with legacy total 3 and nft total 7.
C10_Witness ==
    /\ bpc = "done"
    /\ TotalRules("legacy", commands) = 3
    /\ TotalRules("nft", commands) = 7
    /\ detectedBackend = nft


\* The preferred backends of the sample callers, written in lower case.
LowerCaseOf(given) ==
    CASE given = << "A", "u", "t", "o" >> -> << "a", "u", "t", "o" >>
      [] given = << "N", "F", "T" >> -> << "n", "f", "t" >>
      [] given = << "L", "e", "g", "a", "c", "y" >> -> << "l", "e", "g", "a", "c", "y" >>
      [] OTHER -> given

\* C11 (as claimed): with a preferred backend other than "auto", DetectBackend
\* returns the exact string passed, whatever was detected, and warns if and
\* only if the preferred backend differs from the detected one; with "auto" it
\* returns the detected backend and does not warn.
C11_ReturnsPreferredVerbatim ==
    (bpc = "done") =>
        IF passed # << "a", "u", "t", "o" >>
        THEN /\ returned = passed
             /\ warned <=> (passed # detectedBackend)
        ELSE /\ returned = detectedBackend
             /\ ~warned

\* C11 (amended): with a preferred backend that, written in lower case, is not
\* "auto", DetectBackend returns the preferred backend in lower case, whatever
\* was detected, and warns if and only if that lower-case string differs from
\* the detected backend; with "auto" in any letter case it returns the
\* detected backend and does not warn.
C11_ReturnsPreferredLowerCased ==
    (bpc = "done") =>
        IF LowerCaseOf(passed) # << "a", "u", "t", "o" >>
        THEN /\ returned = LowerCaseOf(passed)
             /\ warned <=> (LowerCaseOf(passed) # detectedBackend)
        ELSE /\ returned = detectedBackend
             /\ ~warned

\* A call given "legacy" while the evidence says "nft": it returned "legacy"
\* and warned.
C11_Witness ==
    /\ bpc = "done"
    /\ passed = << "l", "e", "g", "a", "c", "y" >>
    /\ detectedBackend = << "n", "f", "t" >>
    /\ returned = << "l", "e", "g", "a", "c", "y" >>
    /\ warned

\* The preferred backends that name a backend or "auto", in any letter case.
KnownPreferences ==
    {g \in SpecifiedBackends :
        LowerCaseOf(g) \in {<< "a", "u", "t", "o" >>, << "n", "f", "t" >>,
                            << "l", "e", "g", "a", "c", "y" >>}}

\* C12 (as claimed): every DetectBackend call that returns returns "legacy" or
\* "nft", for every preferred backend and every command output.
C12_ReturnsLegacyOrNft ==
    (bpc = "done") =>
        returned \in {<< "l", "e", "g", "a", "c", "y" >>, << "n", "f", "t" >>}

\* C12 (amended): the detected backend is always "legacy" or "nft", and every
\* DetectBackend call that returns returns "legacy" or "nft" when the
\* preferred backend is "auto", "legacy" or "nft" in any letter case; any
\* other preferred backend is returned itself, in lower case.
C12_ReturnsLegacyOrNftForKnown ==
    /\ (bpc \in {"select", "done"}) =>
          detectedBackend \in {<< "l", "e", "g", "a", "c", "y" >>, << "n", "f", "t" >>}
    /\ (bpc = "done") =>
          IF passed \in KnownPreferences
          THEN returned \in {<< "l", "e", "g", "a", "c", "y" >>, << "n", "f", "t" >>}
          ELSE returned = LowerCaseOf(passed)

\* A call given "Auto" that returned the detected "nft".
C12_Witness ==
    /\ bpc = "done"
    /\ passed = << "A", "u", "t", "o" >>
    /\ returned = << "n", "f", "t" >>


\* The lines starting with '-' in what the commands of a mode printed, the
\* runs that reported an error counted as empty output.
RECURSIVE UsableRules(_, _)
UsableRules(mode, runs) ==
    IF runs = << >> THEN 0
    ELSE (IF Head(runs).mode = mode /\ ~Head(runs).err THEN Head(runs).rules ELSE 0)
         + UsableRules(mode, Tail(runs))

\* C13: in DetectBackend a command run that reports an error is not fatal and
\* is treated as empty output: it adds 0 configuration lines to its mode's
\* total, whatever bytes came back with the error, and the call goes on to run
\* the remaining commands and return a backend.
C13_FailedRunIsEmptyOutput ==
    /\ (bpc = "panic") => lookups[Len(lookups)].name \notin installed
    /\ (bpc \in {"findNft", "runNft6", "runNft4", "countNft", "select", "done"}) =>
          legacyLines = UsableRules("legacy", commands)
    /\ (bpc \in {"select", "done"} /\ Len(commands) = 4) =>
          nftLines = UsableRules("nft", commands)


\* The save binary of a family and mode, and the generic one of the family.
SpecificSave(family, mode) ==
    CASE family = 6 /\ mode = "legacy" -> "ip6tables-legacy-save"
      [] family = 4 /\ mode = "legacy" -> "iptables-legacy-save"
      [] family = 6 /\ mode = "nft" -> "ip6tables-nft-save"
      [] family = 4 /\ mode = "nft" -> "iptables-nft-save"

GenericSave(family) == IF family = 6 THEN "ip6tables-save" ELSE "iptables-save"

\* The resolver finds a save binary for the family and mode.
Resolves(family, mode) ==
    SpecificSave(family, mode) \in installed \/ GenericSave(family) \in installed

\* name is what resolution must give for the family and mode.
BestSave(name, family, mode) ==
    /\ name \in installed
    /\ IF SpecificSave(family, mode) \in installed
       THEN name = SpecificSave(family, mode)
       ELSE name = GenericSave(family)

\* C14: binary resolution for a family and mode gives the mode-specific name
\* (ip[6]tables-<mode>-save) whenever the resolver finds it, otherwise the
\* generic name (ip[6]tables-save) if the resolver finds that, and is fatal (no
\* backend is returned) exactly when the resolver finds neither; the generic
\* name is never chosen, nor looked up, while the mode-specific one resolves.
C14_BestBinaryOrFatal ==
    /\ (ip6LgcySave # "") => BestSave(ip6LgcySave, 6, "legacy")
    /\ (ip4LgcySave # "") => BestSave(ip4LgcySave, 4, "legacy")
    /\ (ip6NftSave # "") => BestSave(ip6NftSave, 6, "nft")
    /\ (ip4NftSave # "") => BestSave(ip4NftSave, 4, "nft")
    /\ \A i \in 1 .. Len(lookups) :
          \A f \in {4, 6} :
              (lookups[i].name = GenericSave(f)) =>
                  /\ i > 1
                  /\ lookups[i - 1].name = SpecificSave(f, lookups[i].mode)
                  /\ lookups[i - 1].name \notin installed
    /\ (bpc # "findLegacy") =>
          ((Resolves(6, "legacy") /\ Resolves(4, "legacy"))
              <=> (ip6LgcySave # "" /\ ip4LgcySave # ""))
    /\ (bpc \notin {"findLegacy", "runLegacy6", "runLegacy4", "countLegacy", "findNft"}
           /\ Len(commands) >= 2 /\ legacyLines < 10) =>
          ((Resolves(6, "nft") /\ Resolves(4, "nft"))
              <=> (ip6NftSave # "" /\ ip4NftSave # ""))
    /\ (bpc = "panic") <=>
          \/ (bpc # "findLegacy" /\ ~(Resolves(6, "legacy") /\ Resolves(4, "legacy")))
          \/ (bpc \notin {"findLegacy", "runLegacy6", "runLegacy4", "countLegacy", "findNft"}
                 /\ Len(commands) = 2 /\ legacyLines < 10
                 /\ ~(Resolves(6, "nft") /\ Resolves(4, "nft")))
    /\ (bpc = "panic") => returned = << >>

\* A call that returned on a host without ip6tables-legacy-save: it ran the
\* generic ip6tables-save for legacy and the mode-specific binaries elsewhere.
C14_Witness ==
    /\ bpc = "done"
    /\ returned # << >>
    /\ "ip6tables-legacy-save" \notin installed
    /\ ip6LgcySave = "ip6tables-save"
    /\ ip4LgcySave = "iptables-legacy-save"
    /\ ip6NftSave = "ip6tables-nft-save"
    /\ "ip6tables-save" \in installed /\ "iptables-save" \in installed

\* A call that ended in the fatal condition in its nft phase.
C14_WitnessFatal ==
    /\ bpc = "panic"
    /\ Len(commands) = 2
    /\ ip6NftSave = "ip6tables-save"
    /\ ip4NftSave = ""


\* The Features a cycle of goroutine t must compute: the flags its probed
\* versions give, each valid override entry put in place of its flag.
ExpectedFeatures(t) ==
    [k \in FlagNames |->
        IF k \in ValidOverrides
        THEN ParseBool(featureOverride[k]).val
        ELSE computeFeatures(iptV[t], kerV[t])[k]]

\* C15: after every probing cycle the cache equals by value the Features the
\* cycle computed with the overrides applied.  The cache is replaced and a
\* change notice logged only if there was no cache or the new Features differ
\* from the cached ones; when they are equal the cache stays the same snapshot
\* and no notice is logged.
C15_PublishOnlyOnChange ==
    [][ \A t \in Threads :
          (pc[t] = "features" /\ pc'[t] = "return") =>
              /\ featureCache' # 0
              /\ heap'[featureCache'] = ExpectedFeatures(t)
              /\ IF featureCache = 0 \/ heap[featureCache] # ExpectedFeatures(t)
                 THEN /\ featureCache' # featureCache
                      /\ notices' = notices + 1
                 ELSE /\ featureCache' = featureCache
                      /\ heap' = heap
                      /\ notices' = notices ]_vars

\* Three cycles done: the second changed the cache and the third, computing
\* the same Features again, left the second's snapshot in place.
C15_Witness ==
    /\ cycles = 3
    /\ notices = 2
    /\ featureCache = 2
    /\ heap[1] # heap[2]
    /\ computed = << heap[2] >>


\* C16: a Features snapshot once published is never modified: whatever calls
\* follow, the value a caller got from an earlier GetFeatures() stays
\* flag for flag what it was when returned (a differing result replaces the
\* cache with a new snapshot and is not written into the old one), and the
\* detector holds at most one snapshot, the latest published.
C16_PublishedSnapshotImmutable ==
    [][ /\ \A i \in 1 .. Len(heap) : i <= Len(heap') /\ heap'[i] = heap[i]
        /\ \A t \in Threads :
              (ret[t] > 0 /\ ret'[t] = ret[t]) => heap'[ret'[t]] = heap[ret[t]]
        /\ featureCache' = Len(heap')
        /\ featureCache' \in {featureCache, Len(heap) + 1} ]_vars

\* A caller still holds the snapshot GetFeatures() returned to it while a
\* later refresh has replaced the cache with a snapshot of other flags.
C16_Witness ==
    \E t \in Threads :
        /\ ret[t] > 0
        /\ featureCache > ret[t]
        /\ heap[ret[t]] # heap[featureCache]


\* The message the override loop logs for the entry of key k.
ExpectedMessage(k) ==
    IF ParseBool(featureOverride[k]).err THEN "unparsable"
    ELSE IF k \in FlagNames THEN "override" ELSE "unknown"

\* C17: the override messages (unparsable value, unknown flag name, override
\* applied) are logged only during the first probing cycle of a detector:
\* loggedOverrides is false until the first cycle ends and true in every state
\* after it, so each override entry gives one message in the first cycle and
\* none later, however many refreshes follow, while its effect on the flags is
\* applied in every cycle.
C17_OverridesLoggedOnce ==
    /\ loggedOverrides <=> (cycles >= 1)
    /\ \A k \in DOMAIN featureOverride :
          /\ Len(overrideLog[k]) = (IF cycles >= 1 THEN 1 ELSE 0)
          /\ (cycles >= 1) => overrideLog[k][1] = ExpectedMessage(k)
    /\ \A t \in Threads :
          (pc[t] = "return" /\ probe[t].ran) =>
              \A k \in ValidOverrides :
                  /\ computed[1][k] = ParseBool(featureOverride[k]).val
                  /\ heap[featureCache][k] = ParseBool(featureOverride[k]).val

\* The third cycle of a detector with a valid and an unparsable override: one
\* message for each entry, and the valid one in effect against the probes.
C17_Witness ==
    \E t \in Threads : \E k, u \in DOMAIN featureOverride :
        /\ cycles = 3 /\ pc[t] = "return" /\ probe[t].ran
        /\ overrideLog[k] = << "override" >>
        /\ overrideLog[u] = << "unparsable" >>
        /\ computeFeatures(iptV[t], kerV[t])[k] # ParseBool(featureOverride[k]).val
        /\ heap[featureCache][k] = ParseBool(featureOverride[k]).val


\* The '-' characters of out that open a line: the first character of out, or
\* the character after a newline.
DashLines(out) ==
    Cardinality({i \in 1 .. Len(out) :
                    out[i] = "-" /\ (i = 1 \/ out[i - 1] = "\n")})

\* C18: the configuration-line count of an output is the number of its
\* newline-separated lines whose first character is '-': empty lines, comment
\* lines (starting with '#') and lines where the '-' is not the first
\* character (after a space, say) count 0; a mode's total is the sum of the
\* counts of its IPv6 and IPv4 outputs.
C18_CountsLinesStartingWithDash ==
    /\ (bpc \in {"findNft", "runNft6", "runNft4", "countNft", "select", "done"}) =>
          /\ legacyLines = DashLines(ip6l) + DashLines(ip4l)
          /\ legacyLines = commands[1].rules + commands[2].rules
    /\ (bpc \in {"select", "done"} /\ Len(commands) = 4) =>
          /\ nftLines = DashLines(ip6n) + DashLines(ip4n)
          /\ nftLines = commands[3].rules + commands[4].rules

\* A call whose IPv6 legacy output had a comment with a '-', an empty line and
\* a '-' after a space (count 0) and whose IPv4 legacy output had a rule
\* first and a rule last with no newline (count 2).
C18_Witness ==
    /\ bpc = "done"
    /\ ip6l = << "#", " ", "-", "A", "\n", "\n", " ", "-", "A", "\n", "*", "n", "a", "t" >>
    /\ ip4l = << "-", "A", " ", "-", "j", "\n", "#", "c", "\n", "-", "N" >>
    /\ legacyLines = 2
    /\ nftLines = 7


\* C19: in any interleaving of concurrent GetFeatures() calls on a fresh
\* detector with no RefreshFeatures() call, exactly one probing cycle is run in
\* all, by the first caller to take the lock; every call returns the same
\* snapshot, and the cache, once present, never becomes absent again.
C19_OneCycleForConcurrentGets ==
    /\ [](/\ cycles <= 1
          /\ Len(heap) <= 1
          /\ Cardinality(InSection) <= 1
          /\ (featureCache # 0) <=> (cycles = 1)
          /\ \A t \in Threads :
                /\ (pc[t] \in {"iptables", "kernel", "features"} \/ ioCmd[t] > 0
                       \/ ioKer[t] > 0) => pred[t] = NoSection
                /\ (pc[t] \in {"iptables", "kernel", "features"}) => cycles = 0
                /\ (op[t] = "Get" /\ pc[t] = "idle") =>
                      (cycles = 1 /\ ret[t] = 1 /\ featureCache = 1))
    /\ [][(featureCache # 0) => (featureCache' = featureCache /\ heap' = heap)]_vars

\* Two goroutines called GetFeatures() before any cache existed; one probed,
\* the other took the lock right after it, probed nothing, and both returned
\* the one snapshot.
C19_Witness ==
    \E t, u \in Threads :
        /\ t # u
        /\ op[t] = "Get" /\ pc[t] = "idle" /\ ret[t] = 1
        /\ op[u] = "Get" /\ pc[u] = "idle" /\ ret[u] = 1
        /\ ~cacheAtCall[t] /\ ~cacheAtCall[u]
        /\ ioCmd[t] = 1 /\ ioKer[t] = 1
        /\ ioCmd[u] = 0 /\ ioKer[u] = 0
        /\ pred[u] = [op |-> "Get", probed |-> TRUE]
        /\ cycles = 1


\* The host has the generic ip6tables-save and iptables-save and none of the
\* four mode-specific save binaries.
OnlyGenericSave == installed = {"ip6tables-save", "iptables-save"}

\* In this call the Command Runner gave the nft phase, for each binary name
\* the legacy phase had run, the output it gave then.
SameOutputForSameName ==
    /\ (ip6NftSave = ip6LgcySave) => ip6n = ip6l
    /\ (ip4NftSave = ip4LgcySave) => ip4n = ip4l

\* C20: when for both families neither mode-specific save binary resolves but
\* the generic ip[6]tables-save does, the legacy phase and the nft phase run
\* the same generic binaries; with a Command Runner that returns the same
\* output for the same binary name, the legacy and nft totals are equal and
\* the detected backend is "legacy" for every output.
C20_GenericOnlyDetectsLegacy ==
    OnlyGenericSave =>
        /\ bpc # "panic"
        /\ \A i \in 1 .. Len(commands) :
              commands[i].name = (IF i \in {1, 3} THEN "ip6tables-save" ELSE "iptables-save")
        /\ (Len(commands) >= 2 /\ legacyLines < 10 /\ bpc \in {"select", "done"}) =>
              Len(commands) = 4
        /\ (bpc \in {"select", "done"} /\ Len(commands) = 4 /\ SameOutputForSameName) =>
              /\ ip6NftSave = ip6LgcySave /\ ip4NftSave = ip4LgcySave
              /\ nftLines = legacyLines
              /\ detectedBackend = << "l", "e", "g", "a", "c", "y" >>
        /\ (bpc \in {"select", "done"} /\ Len(commands) = 2) =>
              detectedBackend = << "l", "e", "g", "a", "c", "y" >>

\* A call on such a host whose generic binaries printed 5 and 3 rules in both
\* phases: totals 8 and 8, "legacy" detected.
C20_Witness ==
    /\ OnlyGenericSave
    /\ bpc = "done"
    /\ Len(commands) = 4
    /\ SameOutputForSameName
    /\ legacyLines = 8 /\ nftLines = 8
    /\ detectedBackend = << "l", "e", "g", "a", "c", "y" >>

====
